---- MODULE Spec2Model ----
(***************************************************************************)
(* Financial Reporting Portal (src/app.py): the data-preparation and       *)
(* forecasting pipeline of the Streamlit script.                           *)
(*                                                                         *)
(* Every browser session runs the script top to bottom in a thread of its  *)
(* own (a "render cycle").  init_database() is wrapped in                   *)
(* @st.cache_resource, a process-wide cache whose misses are computed      *)
(* under a lock; everything after the call is computation local to the     *)
(* session that only reads the store.                                      *)
(*                                                                         *)
(* Amounts are dollars, held as integers.  The feed's Volume is counted in *)
(* lots of 2,000,000 shares, which makes                                   *)
(*   (Close * Volume) / 1_000_000_000 * 50000  =  Close * lots * 100       *)
(* and every product by 0.65, 0.6 and 0.4 exact.  Floating-point rounding  *)
(* is not modelled.                                                        *)
(***************************************************************************)
EXTENDS Integers, Sequences, FiniteSets, TLC

(***************************************************************************)
(* Bounds of the model.                                                    *)
(***************************************************************************)
NumSessions == 2      \* browser sessions running the script concurrently
MaxFeedLen == 2       \* rows of the history the feed returns

Sessions == 1..NumSessions

None == 0             \* Python's None where an engine id or a session is expected

(***************************************************************************)
(* Calendar: strftime('%b'), the '%Y-%b' parse, month_order, DateOffset.   *)
(***************************************************************************)
month_order ==
  <<"Jan", "Feb", "Mar", "Apr", "May", "Jun", "Jul", "Aug", "Sep", "Oct", "Nov", "Dec">>

\* date.strftime('%b') of a date in calendar month m
StrftimeB(m) == month_order[m]

\* position of a month abbreviation in month_order (the %b directive, and the
\* rank the ordered Categorical gives it)
MonthNumber ==
  [Jan |-> 1, Feb |-> 2, Mar |-> 3, Apr |-> 4, May |-> 5, Jun |-> 6,
   Jul |-> 7, Aug |-> 8, Sep |-> 9, Oct |-> 10, Nov |-> 11, Dec |-> 12]

MonthIndex(abbr) == MonthNumber[abbr]

\* the order Python gives the twelve abbreviations as strings, which is the
\* order groupby() sorts its keys in
\* (Apr < Aug < Dec < Feb < Jan < Jul < Jun < Mar < May < Nov < Oct < Sep)
MonthNamesSorted ==
  [Apr |-> 1, Aug |-> 2, Dec |-> 3, Feb |-> 4, Jan |-> 5, Jul |-> 6,
   Jun |-> 7, Mar |-> 8, May |-> 9, Nov |-> 10, Oct |-> 11, Sep |-> 12]

LexRank(abbr) == MonthNamesSorted[abbr]

\* pd.to_datetime(str(year) + '-' + month, format='%Y-%b'): the first of the month
ToDatetime(year, abbr) == [year |-> year, month |-> MonthIndex(abbr)]

\* a total order on the first-of-month dates (what toordinal() is used as)
DateOrd(d) == d.year * 12 + (d.month - 1)

\* date + pd.DateOffset(months=i)
DateOffset(d, i) ==
  LET o == DateOrd(d) + i
  IN  [year |-> o \div 12, month |-> (o % 12) + 1]

(***************************************************************************)
(* The feed: yf.Ticker("MSFT").history(period="2y", interval="1mo").       *)
(* Either the call raises, or it returns a history, oldest first, of rows  *)
(* (date, Close, Volume) in which Close or Volume may be missing.  The     *)
(* index holds dates, and two of them may lie in one calendar month (the   *)
(* row of the month in progress is stamped with the day of the call).      *)
(***************************************************************************)
FeedStart == [year |-> 2024, month |-> 11]

FeedDates == {DateOffset(FeedStart, i) : i \in 0..2}

Na == [na |-> TRUE, v |-> 0]

Val(x) == [na |-> FALSE, v |-> x]

\* pd.isna
IsNa(x) == x.na

Closes == {Na, Val(1)}

\* a month without trades has Volume 0
Volumes == {Na, Val(0), Val(1)}

FeedRow == [date : FeedDates, Close : Closes, Volume : Volumes]

Histories ==
  UNION {{h \in [1..n -> FeedRow] :
            \A i \in 1..(n - 1) : DateOrd(h[i].date) <= DateOrd(h[i + 1].date)}
         : n \in 0..MaxFeedLen}

FeedOutcomes ==
  {[raised |-> TRUE, history |-> <<>>]}
    \cup {[raised |-> FALSE, history |-> h] : h \in Histories}

(***************************************************************************)
(* Metric synthesis (init_database, lines 60-109).                         *)
(***************************************************************************)
Record(month, year, revenue, expenses, department) ==
  [month |-> month, year |-> year, revenue |-> revenue,
   expenses |-> expenses, department |-> department]

\* (row['Close'] * row['Volume']) / 1_000_000_000 * 50000
simulated_revenue(row) == row.Close.v * row.Volume.v * 100

\* simulated_revenue * 0.65
simulated_expenses(row) == (simulated_revenue(row) * 65) \div 100

\* the two appends of one iteration of the loop
SplitDepartments(row) ==
  LET month_name == StrftimeB(row.date.month)
      year == row.date.year
  IN  << Record(month_name, year, (simulated_revenue(row) * 6) \div 10,
                (simulated_expenses(row) * 6) \div 10, "Sales"),
         Record(month_name, year, (simulated_revenue(row) * 4) \div 10,
                (simulated_expenses(row) * 4) \div 10, "IT") >>

\* the guard of the loop body: a row with a missing Close or Volume is skipped
RowSkipped(row) == IsNa(row.Close) \/ IsNa(row.Volume)

\* for date, row in history.iterrows(): ...
RECURSIVE FeedLoop(_)
FeedLoop(history) ==
  IF history = <<>> THEN <<>>
  ELSE IF RowSkipped(Head(history)) THEN FeedLoop(Tail(history))
  ELSE SplitDepartments(Head(history)) \o FeedLoop(Tail(history))

\* the except branch's data_to_insert
FallbackData ==
  << Record("Jan", 2024, 150000, 90000, "Sales"),
     Record("Feb", 2024, 160000, 95000, "Sales"),
     Record("Mar", 2024, 175000, 92000, "Sales"),
     Record("Jan", 2024, 80000, 70000, "IT"),
     Record("Feb", 2024, 82000, 71000, "IT"),
     Record("Mar", 2024, 85000, 68000, "IT") >>

\* A bug the seeding could have: the except branch keeps what the try block built.
DataToInsertNoFallback(feed) ==
  IF feed.raised THEN <<>> ELSE FeedLoop(feed.history)

\* the try/except of lines 60-109: the value of data_to_insert at line 111
DataToInsert(feed) ==
  IF feed.raised \/ feed.history = <<>> THEN FallbackData
  ELSE IF FeedLoop(feed.history) = <<>> THEN FallbackData
  ELSE FeedLoop(feed.history)

\* INSERT INTO financial_metrics ... for every row, then commit: id is the
\* INTEGER PRIMARY KEY the store assigns
RECURSIVE InsertAll(_, _)
InsertAll(table, data) ==
  IF data = <<>> THEN table
  ELSE InsertAll(Append(table, [id |-> Len(table) + 1,
                                month |-> Head(data).month,
                                year |-> Head(data).year,
                                revenue |-> Head(data).revenue,
                                expenses |-> Head(data).expenses,
                                department |-> Head(data).department]),
                 Tail(data))

\* SELECT count(*) FROM financial_metrics
RowCount(table) == Len(table)

\* if result.scalar() == 0
SeedGuard(table) == RowCount(table) = 0

\* lines 38-117 on a store just created: the table after the commit
Seed(table, feed) ==
  IF SeedGuard(table) THEN InsertAll(table, DataToInsert(feed)) ELSE table

(***************************************************************************)
(* Query and filter layer (lines 219-259).                                 *)
(***************************************************************************)
RECURSIVE Distinct(_)
\* the values of a column in order of first appearance
Distinct(col) ==
  IF col = <<>> THEN <<>>
  ELSE LET rest == Distinct(SelectSeq(Tail(col), LAMBDA x : x # Head(col)))
       IN  <<Head(col)>> \o rest

RECURSIVE InsertByKey(_, _)
\* one step of an ascending sort of [key, val] pairs
InsertByKey(p, sorted) ==
  IF sorted = <<>> THEN <<p>>
  ELSE IF p.key < Head(sorted).key THEN <<p>> \o sorted
  ELSE <<Head(sorted)>> \o InsertByKey(p, Tail(sorted))

RECURSIVE SortPairs(_)
SortPairs(pairs) ==
  IF pairs = <<>> THEN <<>>
  ELSE InsertByKey(Head(pairs), SortPairs(Tail(pairs)))

Vals(pairs) == [i \in 1..Len(pairs) |-> pairs[i].val]

\* SELECT DISTINCT year FROM financial_metrics ORDER BY year DESC
AvailableYears(table) ==
  LET years == Distinct([i \in 1..Len(table) |-> table[i].year])
  IN  Vals(SortPairs([i \in 1..Len(years) |-> [key |-> 0 - years[i], val |-> years[i]]]))

\* SELECT DISTINCT department FROM financial_metrics
AvailableDepts(table) == Distinct([i \in 1..Len(table) |-> table[i].department])

Range(seq) == {seq[i] : i \in 1..Len(seq)}

\* A bug the query could have: the IN clause is appended whatever the selection.
BuildQueryAlwaysIn(selected_year, selected_depts) ==
  [year |-> selected_year, has_in |-> TRUE, depts |-> selected_depts]

\* query_str: the year predicate, and the IN (...) predicate only when the
\* list of selected departments is not empty
BuildQuery(selected_year, selected_depts) ==
  [year |-> selected_year, has_in |-> selected_depts # {}, depts |-> selected_depts]

\* pd.read_sql(query, engine)
ReadSql(query, table) ==
  SelectSeq(table, LAMBDA r : r.year = query.year
                              /\ (query.has_in => r.department \in query.depts))

\* A bug the guard could have: the check of df.empty is missing.
DfEmptyNever(df) == FALSE

\* df.empty
DfEmpty(df) == Len(df) = 0

(***************************************************************************)
(* Numbers that may be undefined: the results of numpy's true division.    *)
(***************************************************************************)
NaN == [kind |-> "nan", num |-> 0, den |-> 0]

Inf(sign) == [kind |-> IF sign > 0 THEN "inf" ELSE "-inf", num |-> 0, den |-> 0]

Num(n, d) == [kind |-> "num", num |-> n, den |-> d]

Raised == [kind |-> "raise", num |-> 0, den |-> 0]

\* A bug the arithmetic could have: Python's own division, which raises
\* ZeroDivisionError on a zero divisor.
PyDivide(a, b) == IF b = 0 THEN Raised ELSE Num(a, b)

\* a / b on numpy values: 0/0 is nan, x/0 is +-inf, nothing raises
NpDivide(a, b) ==
  IF b # 0 THEN Num(a, b)
  ELSE IF a = 0 THEN NaN
  ELSE Inf(a)

\* value * 100
Times100(x) == IF x.kind = "num" THEN Num(x.num * 100, x.den) ELSE x

(***************************************************************************)
(* Aggregation engine (lines 262-323).                                     *)
(***************************************************************************)
\* df['profit'] and df['margin'] of one row
Derive(r) ==
  [id |-> r.id, month |-> r.month, year |-> r.year, revenue |-> r.revenue,
   expenses |-> r.expenses, department |-> r.department,
   profit |-> r.revenue - r.expenses,
   margin |-> Times100(NpDivide(r.revenue - r.expenses, r.revenue))]

DeriveAll(df) == [i \in 1..Len(df) |-> Derive(df[i])]

RECURSIVE SumRevenue(_)
SumRevenue(df) == IF df = <<>> THEN 0 ELSE Head(df).revenue + SumRevenue(Tail(df))

RECURSIVE SumExpenses(_)
SumExpenses(df) == IF df = <<>> THEN 0 ELSE Head(df).expenses + SumExpenses(Tail(df))

RECURSIVE SumProfit(_)
SumProfit(df) == IF df = <<>> THEN 0 ELSE Head(df).profit + SumProfit(Tail(df))

\* df['margin'].mean(): missing values are skipped; only the kind of the
\* result is kept
MeanMarginKind(df) ==
  LET kinds == {df[i].margin.kind : i \in 1..Len(df)} \ {"nan"}
  IN  IF "raise" \in kinds THEN "raise"
      ELSE IF kinds = {} THEN "nan"
      ELSE IF "inf" \in kinds /\ "-inf" \in kinds THEN "nan"
      ELSE IF "inf" \in kinds THEN "inf"
      ELSE IF "-inf" \in kinds THEN "-inf"
      ELSE "num"

\* avg_margin - avg_margin * 0.95
MarginDeltaKind(kind) == IF kind \in {"inf", "-inf"} THEN "nan" ELSE kind

\* (total - total * k) / (total * k) * 100, with k = per_cent / 100
DeltaPct(total, per_cent) ==
  Times100(NpDivide(total * 100 - total * per_cent, total * per_cent))

\* lines 270-294
Kpi(df) ==
  LET total_revenue == SumRevenue(df)
      total_profit == SumProfit(df)
      avg_margin == MeanMarginKind(df)
  IN  [total_revenue |-> total_revenue,
       total_profit |-> total_profit,
       avg_margin |-> avg_margin,
       revenue_delta |-> DeltaPct(total_revenue, 95),
       profit_delta |-> DeltaPct(total_profit, 90),
       margin_delta |-> MarginDeltaKind(avg_margin)]

\* df.groupby('month')[['revenue', 'expenses']].sum().reset_index(): one row
\* per month, the keys sorted as strings
GroupByMonth(df) ==
  LET months == Distinct([i \in 1..Len(df) |-> df[i].month])
      groups == [i \in 1..Len(months) |->
                   [key |-> LexRank(months[i]),
                    val |-> [month |-> months[i],
                             revenue |-> SumRevenue(SelectSeq(df, LAMBDA r : r.month = months[i])),
                             expenses |-> SumExpenses(SelectSeq(df, LAMBDA r : r.month = months[i]))]]]
  IN  Vals(SortPairs(groups))

\* A bug the rollup could have: the ordered Categorical and the sort are missing.
SortMonthsNot(monthly) == monthly

\* pd.Categorical(..., categories=month_order, ordered=True), sort_values('month')
SortMonths(monthly) ==
  Vals(SortPairs([i \in 1..Len(monthly) |->
                    [key |-> MonthIndex(monthly[i].month), val |-> monthly[i]]]))

\* monthly_data, lines 304-308
MonthlyData(df) == SortMonths(GroupByMonth(df))

\* the order Python gives the department labels as strings
DeptRank(d) == IF d = "IT" THEN 1 ELSE 2

\* df.groupby('department')['profit'].sum().reset_index()
DeptData(df) ==
  LET depts == Distinct([i \in 1..Len(df) |-> df[i].department])
  IN  Vals(SortPairs([i \in 1..Len(depts) |->
             [key |-> DeptRank(depts[i]),
              val |-> [department |-> depts[i],
                       profit |-> SumProfit(SelectSeq(df, LAMBDA r : r.department = depts[i]))]]]))

(***************************************************************************)
(* Forecast engine (lines 330-379).  The dates and the tags of the points  *)
(* are modelled; the revenue the fitted line gives a projected point is a  *)
(* floating-point least-squares value and is left out.                     *)
(***************************************************************************)
\* df.groupby(['year', 'month'])['revenue'].sum().reset_index(), with the date
\* column of lines 333-334: keys sorted by year, then by month as a string
GroupByPeriod(df) ==
  LET periods == Distinct([i \in 1..Len(df) |-> <<df[i].year, df[i].month>>])
      groups == [i \in 1..Len(periods) |->
                   [key |-> periods[i][1] * 12 + LexRank(periods[i][2]),
                    val |-> [year |-> periods[i][1], month |-> periods[i][2],
                             revenue |-> SumRevenue(SelectSeq(df,
                                LAMBDA r : r.year = periods[i][1] /\ r.month = periods[i][2])),
                             date |-> ToDatetime(periods[i][1], periods[i][2])]]]
  IN  Vals(SortPairs(groups))

\* A bug the forecast could have: the sort by date is missing.
SortByDateNot(fdf) == fdf

\* forecast_df.sort_values('date')
SortByDate(fdf) ==
  Vals(SortPairs([i \in 1..Len(fdf) |-> [key |-> DateOrd(fdf[i].date), val |-> fdf[i]]]))

ForecastDf(df) == SortByDate(GroupByPeriod(df))

\* lines 337-379: the combined frame, or the "not enough data" warning
Forecast(df) ==
  LET fdf == ForecastDf(df)
  IN  IF Len(fdf) > 1
      THEN LET last_date == fdf[Len(fdf)].date
               future_dates == [i \in 1..3 |-> DateOffset(last_date, i)]
           IN  [state |-> "Forecast",
                forecast_df |-> fdf,
                points |-> [i \in 1..Len(fdf) |-> [date |-> fdf[i].date, type |-> "Historical"]]
                           \o [i \in 1..3 |-> [date |-> future_dates[i], type |-> "Forecast"]]]
      ELSE [state |-> "Insufficient", forecast_df |-> fdf, points |-> <<>>]

\* df.to_csv(index=False): the header, then one line per row
ToCsv(df) ==
  << <<"id", "month", "year", "revenue", "expenses", "department", "profit", "margin">> >>
    \o [i \in 1..Len(df) |->
          <<df[i].id, df[i].month, df[i].year, df[i].revenue, df[i].expenses,
            df[i].department, df[i].profit, df[i].margin>>]

(***************************************************************************)
(* One render cycle after init_database() has returned (lines 219-393).    *)
(***************************************************************************)
NoKpi ==
  [total_revenue |-> 0, total_profit |-> 0, avg_margin |-> "none",
   revenue_delta |-> NaN, profit_delta |-> NaN, margin_delta |-> "none"]

NoForecast == [state |-> "none", forecast_df |-> <<>>, points |-> <<>>]

\* what a render cycle has shown; steps lists the stages it ran, in order
Out(status, selected_year, selected_depts, df, kpi, monthly, dept, forecast, csv, steps) ==
  [status |-> status, selected_year |-> selected_year, selected_depts |-> selected_depts,
   df |-> df, kpi |-> kpi, monthly_data |-> monthly, dept_data |-> dept,
   forecast |-> forecast, csv |-> csv, steps |-> steps]

NoOut == Out("none", None, {}, <<>>, NoKpi, <<>>, <<>>, NoForecast, <<>>, <<>>)

\* an exception of the arithmetic ends the script where it is raised
Raises(x) == x.kind = "raise"

\* lines 249-393 for one selection of the sidebar
Render(table, selected_year, selected_depts) ==
  LET read == ReadSql(BuildQuery(selected_year, selected_depts), table)
      df == DeriveAll(read)
      kpi == Kpi(df)
  IN  IF DfEmpty(read)
      THEN \* st.warning("No data available for the selected filters."); st.stop()
           Out("no_data", selected_year, selected_depts, <<>>, NoKpi, <<>>, <<>>,
               NoForecast, <<>>, <<"query">>)
      ELSE IF \E i \in 1..Len(df) : Raises(df[i].margin)
      THEN Out("crashed", selected_year, selected_depts, <<>>, NoKpi, <<>>, <<>>,
               NoForecast, <<>>, <<"query", "derive">>)
      ELSE IF Raises(kpi.revenue_delta) \/ Raises(kpi.profit_delta)
      THEN Out("crashed", selected_year, selected_depts, df, NoKpi, <<>>, <<>>,
               NoForecast, <<>>, <<"query", "derive", "kpi">>)
      ELSE Out("done", selected_year, selected_depts, df, kpi, MonthlyData(df),
               DeptData(df), Forecast(df), ToCsv(df),
               <<"query", "derive", "kpi", "monthly", "department", "forecast", "export">>)

(***************************************************************************)
(* State.                                                                  *)
(***************************************************************************)
VARIABLES
  cache,    \* the entry of st.cache_resource for init_database: an engine id or None
  lock,     \* the session computing the entry (holder of the cache's lock), or None
  tables,   \* tables[e]: financial_metrics of the in-memory store of engine e
  seeds,    \* history: one record per seeding pass that has run
  sess      \* per session: its position in the script and its local variables
            \* (missed: the call of init_database in progress found the cache empty)

vars == <<cache, lock, tables, seeds, sess>>

Idle == [pc |-> "idle", engine |-> None, missed |-> FALSE, out |-> NoOut]

Init ==
  /\ cache = None
  /\ lock = None
  /\ tables = <<>>
  /\ seeds = <<>>
  /\ sess = [s \in Sessions |-> Idle]

(***************************************************************************)
(* st.cache_resource: a hit returns the cached engine; a miss takes the    *)
(* lock of the entry, looks again and only then runs the function.         *)
(***************************************************************************)
\* A bug the caching could have: the decorator is missing, every call runs the body.
CacheHitNever(entry) == FALSE

CacheHit(entry) == entry # None

\* A bug the caching could have: the computation of a miss is not serialised.
LockFreeAlways(holder) == TRUE

LockFree(holder) == holder = None

(***************************************************************************)
(* Actions.                                                                *)
(***************************************************************************)
\* A script run (first load, or a rerun after a widget changed) up to the
\* lookup of the cache: the login gate of lines 172-214, which stops the script
\* unless authentication_status is True, and then line 216,
\* engine = init_database()
StartRun(s) ==
  /\ sess[s].pc \in {"idle", "stopped", "rendered"}
  /\ \E authentication_status \in BOOLEAN :
       sess' = [sess EXCEPT ![s] =
                  IF ~authentication_status THEN [Idle EXCEPT !.pc = "stopped"]
                  ELSE IF CacheHit(cache) THEN [Idle EXCEPT !.pc = "ready", !.engine = cache]
                  ELSE [Idle EXCEPT !.pc = "wait", !.missed = TRUE]]
  /\ UNCHANGED <<cache, lock, tables, seeds>>

\* after a miss: the lock is taken and the cache looked up again
AcquireLock(s) ==
  /\ sess[s].pc = "wait"
  /\ LockFree(lock)
  /\ IF CacheHit(cache)
     THEN /\ sess' = [sess EXCEPT ![s] = [@ EXCEPT !.pc = "ready", !.engine = cache]]
          /\ UNCHANGED lock
     ELSE /\ sess' = [sess EXCEPT ![s] = [@ EXCEPT !.pc = "compute"]]
          /\ lock' = s
  /\ UNCHANGED <<cache, tables, seeds>>

\* the body of init_database (lines 30-118) on a new engine, whose store no
\* other thread can reach before the engine is returned; the result is cached
\* and the lock released
InitDatabase(s) ==
  /\ sess[s].pc = "compute"
  /\ \E feed \in FeedOutcomes :
       LET engine == Len(tables) + 1
           created == <<>>
       IN  /\ tables' = Append(tables, Seed(created, feed))
           /\ seeds' = Append(seeds,
                [engine |-> engine,
                 raised |-> feed.raised,
                 empty |-> feed.history = <<>>,
                 usable |-> Cardinality({i \in 1..Len(feed.history) :
                                ~IsNa(feed.history[i].Close) /\ ~IsNa(feed.history[i].Volume)}),
                 inserted |-> Len(Seed(created, feed)) - Len(created)])
           /\ cache' = engine
           /\ lock' = None
           /\ sess' = [sess EXCEPT ![s] = [@ EXCEPT !.pc = "ready", !.engine = engine]]

\* lines 219-393: the sidebar offers the years and the departments found in the
\* table, and the rest of the script runs on the selection
RenderCycle(s) ==
  /\ sess[s].pc = "ready"
  /\ LET table == tables[sess[s].engine]
         available_years == AvailableYears(table)
         available_depts == AvailableDepts(table)
     IN  IF available_years = <<>>
         THEN \* st.error("No data available in database"); st.stop()
              sess' = [sess EXCEPT ![s] =
                         [@ EXCEPT !.pc = "rendered", !.missed = FALSE, !.out.status = "no_years"]]
         ELSE \E selected_year \in Range(available_years),
                 selected_depts \in SUBSET Range(available_depts) :
                sess' = [sess EXCEPT ![s] =
                           [@ EXCEPT !.pc = "rendered", !.missed = FALSE,
                                     !.out = Render(table, selected_year, selected_depts)]]
  /\ UNCHANGED <<cache, lock, tables, seeds>>

Next ==
  \E s \in Sessions :
    \/ StartRun(s)
    \/ AcquireLock(s)
    \/ InitDatabase(s)
    \/ RenderCycle(s)

Spec == Init /\ [][Next]_vars

(***************************************************************************)
(* The pipeline as a function of its inputs: the selection is whatever the *)
(* presentation layer hands over, a year and a set of department labels    *)
(* that need not occur in the table.                                       *)
(***************************************************************************)
YearLabels == {d.year : d \in FeedDates} \cup {FallbackData[i].year : i \in 1..Len(FallbackData)}

DeptLabels == {FallbackData[i].department : i \in 1..Len(FallbackData)}

RenderCycleOpen(s) ==
  /\ sess[s].pc = "ready"
  /\ \E selected_year \in YearLabels, selected_depts \in SUBSET DeptLabels :
       sess' = [sess EXCEPT ![s] =
                  [@ EXCEPT !.pc = "rendered", !.missed = FALSE,
                            !.out = Render(tables[sess[s].engine], selected_year, selected_depts)]]
  /\ UNCHANGED <<cache, lock, tables, seeds>>

NextOpen ==
  \E s \in Sessions :
    \/ StartRun(s)
    \/ AcquireLock(s)
    \/ InitDatabase(s)
    \/ RenderCycleOpen(s)

SpecOpen == Init /\ [][NextOpen]_vars

(***************************************************************************)
(* Properties.                                                             *)
(***************************************************************************)
\* financial_metrics as the render cycles see it: the table of the cached engine
StoreTable == IF cache = None THEN <<>> ELSE tables[cache]

\* the sessions whose call of init_database has returned
Holders == {s \in Sessions : sess[s].engine # None}

\* the sessions whose render cycle has run to its end or to its st.stop()
Rendered == {s \in Sessions : sess[s].pc = "rendered"}

\* the table a session's render cycle read
TableOf(s) == tables[sess[s].engine]

\* the indices of the rows of a table that a selection matches when an empty
\* department set matches nothing
MatchedStrict(table, year, depts) ==
  {i \in 1..Len(table) : table[i].year = year /\ table[i].department \in depts}

\* the indices of the rows of a table of one year
OfYear(table, year) == {i \in 1..Len(table) : table[i].year = year}

RECURSIVE SumOver(_, _, _)
\* the sum of a column over a set of row indices
SumOver(rows, idx, col) ==
  IF idx = {} THEN 0
  ELSE LET i == CHOOSE j \in idx : TRUE
       IN  rows[i][col] + SumOver(rows, idx \ {i}, col)

\* C1: however many calls of init_database have returned, one seeding pass has
\* run, every caller holds the engine of that pass, and the table holds
\* exactly the rows that pass inserted.
C1_SeedingIdempotent ==
  Holders # {} =>
    /\ Len(seeds) = 1
    /\ Len(tables) = 1
    /\ \A s \in Holders : sess[s].engine = seeds[1].engine
    /\ RowCount(StoreTable) = seeds[1].inserted

\* C1 witness: a call has returned that found the cache filled, while another
\* session holds the engine too.
C1_Witness ==
  \E s, t \in Holders :
    /\ s # t
    /\ sess[s].pc = "ready" /\ ~sess[s].missed
    /\ sess[s].engine = sess[t].engine
    /\ RowCount(StoreTable) > 0

C3_FeedFailureFallsBack ==
  /\ \A i \in 1..Len(seeds) :
       (seeds[i].raised \/ seeds[i].empty \/ seeds[i].usable = 0) =>
         /\ Len(tables[seeds[i].engine]) = Len(FallbackData)
         /\ \A k \in 1..Len(FallbackData) :
              /\ tables[seeds[i].engine][k].id = k
              /\ tables[seeds[i].engine][k].month = FallbackData[k].month
              /\ tables[seeds[i].engine][k].year = FallbackData[k].year
              /\ tables[seeds[i].engine][k].revenue = FallbackData[k].revenue
              /\ tables[seeds[i].engine][k].expenses = FallbackData[k].expenses
              /\ tables[seeds[i].engine][k].department = FallbackData[k].department
         /\ cache = seeds[i].engine
  /\ \A e \in 1..Len(tables) : tables[e] # <<>>

\* C3 witness: a pass whose history had rows, none of them usable, and whose
\* caller holds the engine.
C3_Witness ==
  \E i \in 1..Len(seeds) :
    /\ ~seeds[i].raised /\ ~seeds[i].empty /\ seeds[i].usable = 0
    /\ \E s \in Holders : sess[s].engine = seeds[i].engine

\* the distinct (year, month) periods of the rows a render cycle read
PeriodsOf(df) == {DateOrd(ToDatetime(df[i].year, df[i].month)) : i \in 1..Len(df)}

\* the largest element of a non-empty set of integers
Max(S) == CHOOSE x \in S : \A y \in S : y <= x

\* C4: a render cycle that read rows of one period ends the forecast in
\* Insufficient with no point; one that read two or more periods gets the
\* historical points in strictly ascending date order, one per period, followed
\* by exactly 3 Forecast points dated 1, 2 and 3 months after the last period.
C4_Forecast ==
  \A s \in Rendered :
    sess[s].out.status = "done" =>
      LET periods == PeriodsOf(sess[s].out.df)
          f == sess[s].out.forecast
          n == Cardinality(periods)
      IN  /\ n = 1 => f.state = "Insufficient" /\ f.points = <<>>
          /\ n >= 2 =>
               /\ f.state = "Forecast"
               /\ Len(f.points) = n + 3
               /\ \A i \in 1..n : f.points[i].type = "Historical"
               /\ {DateOrd(f.points[i].date) : i \in 1..n} = periods
               /\ \A i \in 1..(n + 2) : DateOrd(f.points[i].date) < DateOrd(f.points[i + 1].date)
               /\ \A k \in 1..3 :
                    /\ f.points[n + k].type = "Forecast"
                    /\ DateOrd(f.points[n + k].date) = Max(periods) + k

\* C4 witness: a forecast over two periods whose projection crosses into the
\* next year.
C4_Witness ==
  \E s \in Rendered :
    /\ sess[s].out.forecast.state = "Forecast"
    /\ Cardinality(PeriodsOf(sess[s].out.df)) >= 2
    /\ \E i \in 1..Len(sess[s].out.forecast.points) :
         sess[s].out.forecast.points[i].date.year > sess[s].out.selected_year

\* the stages after the guard of df.empty
Downstream == {"derive", "kpi", "monthly", "department", "forecast", "export"}

\* C5: a render cycle whose selection matches no row of the table ends in the
\* "no data" state, and none of the later stages has run or produced anything.
C5_EmptyResultStops ==
  \A s \in Rendered :
    LET o == sess[s].out
        matched == IF o.selected_depts = {} THEN OfYear(TableOf(s), o.selected_year)
                   ELSE MatchedStrict(TableOf(s), o.selected_year, o.selected_depts)
    IN  matched = {} =>
          /\ o.status = "no_data"
          /\ Range(o.steps) \cap Downstream = {}
          /\ o.df = <<>> /\ o.kpi = NoKpi /\ o.monthly_data = <<>> /\ o.dept_data = <<>>
          /\ o.forecast = NoForecast /\ o.csv = <<>>

\* C5 witness: a cycle on a seeded table whose selection matched nothing.
C5_Witness ==
  \E s \in Rendered :
    /\ sess[s].out.status = "no_data"
    /\ Len(TableOf(s)) > 0
    /\ sess[s].out.selected_depts # {}

\* C6: the monthly rollup has one entry per month of the rows read, in strictly
\* ascending calendar position, each carrying the sums of revenue and of
\* expenses over all rows of that month.
C6_MonthlyRollup ==
  \A s \in Rendered :
    sess[s].out.status = "done" =>
      LET df == sess[s].out.df
          m == sess[s].out.monthly_data
      IN  /\ {m[i].month : i \in 1..Len(m)} = {df[i].month : i \in 1..Len(df)}
          /\ \A i \in 1..(Len(m) - 1) : MonthIndex(m[i].month) < MonthIndex(m[i + 1].month)
          /\ \A i \in 1..Len(m) :
               LET idx == {j \in 1..Len(df) : df[j].month = m[i].month}
               IN  /\ m[i].revenue = SumOver(df, idx, "revenue")
                   /\ m[i].expenses = SumOver(df, idx, "expenses")

\* C6 witness: a rollup that lists Jan before Feb (the reverse of their order
\* as strings) and sums two departments into Jan.
C6_Witness ==
  \E s \in Rendered :
    LET m == sess[s].out.monthly_data
    IN  /\ Len(m) >= 2
        /\ m[1].month = "Jan" /\ m[2].month = "Feb"
        /\ m[1].revenue = 230000

\* the stages of a render cycle that ran to its end
AllSteps == <<"query", "derive", "kpi", "monthly", "department", "forecast", "export">>

\* C7: no render cycle is aborted by a division; a row with revenue 0 has the
\* undefined marker as margin, a KPI whose total is 0 has the undefined marker
\* as delta, and such a cycle runs all its stages.
C7_DivisionByZero ==
  \A s \in Rendered :
    LET o == sess[s].out
    IN  /\ o.status # "crashed"
        /\ o.status = "done" =>
             /\ \A i \in 1..Len(o.df) : o.df[i].revenue = 0 => o.df[i].margin.kind = "nan"
             /\ o.kpi.total_revenue = 0 => o.kpi.revenue_delta.kind = "nan"
             /\ o.kpi.total_profit = 0 => o.kpi.profit_delta.kind = "nan"
             /\ o.steps = AllSteps
        /\ (\E i \in MatchedStrict(TableOf(s), o.selected_year, o.selected_depts) :
              TableOf(s)[i].revenue = 0) => o.status = "done"

\* C7 witness: a finished cycle over rows that all have revenue 0.
C7_Witness ==
  \E s \in Rendered :
    /\ sess[s].out.status = "done"
    /\ sess[s].out.kpi.total_revenue = 0
    /\ sess[s].out.kpi.total_profit = 0
    /\ \E i \in 1..Len(sess[s].out.df) : sess[s].out.df[i].revenue = 0

\* C8 as stated: the rows one seeding pass inserted are pairwise distinct in
\* (month, year, department).
C8_NoDuplicateTriples ==
  \A e \in 1..Len(tables) :
    \A i, j \in 1..Len(tables[e]) :
      i # j => <<tables[e][i].month, tables[e][i].year, tables[e][i].department>>
               # <<tables[e][j].month, tables[e][j].year, tables[e][j].department>>

\* C9: whatever the interleaving of concurrent calls, at most one session runs
\* the check-empty-then-insert body, at most one seeding pass has run, the
\* table holds that pass's rows, and every caller holds the same engine, the
\* cached one.
C9_ConcurrentSeeding ==
  /\ Cardinality({s \in Sessions : sess[s].pc = "compute"}) <= 1
  /\ Len(seeds) <= 1
  /\ Len(seeds) + Cardinality({s \in Sessions : sess[s].pc = "compute"}) <= 1
  /\ \A s \in Holders : sess[s].engine = cache
  /\ \A s, t \in Holders : sess[s].engine = sess[t].engine
  /\ cache # None => RowCount(tables[cache]) = seeds[1].inserted

\* C9 witness: two sessions that both found the cache empty hold the same engine.
C9_Witness ==
  \E s, t \in Holders :
    /\ s # t
    /\ sess[s].missed /\ sess[t].missed
    /\ sess[s].engine = sess[t].engine

\* C10: once the table is non-empty, no step of any session changes it.
C10_TableImmutable == [][StoreTable # <<>> => StoreTable' = StoreTable]_vars

\* C10 witness: render cycles of two sessions have finished on the seeded table.
C10_Witness ==
  /\ StoreTable # <<>>
  /\ \A s \in Sessions : sess[s].pc = "rendered" /\ sess[s].out.status = "done"

====
